---- MODULE Spec2Model ----
(***************************************************************************)
(* Model of metrics/resources/plugins.py: the document normalizer          *)
(* (_cleanup) and the plugin / update endpoints over the document store.   *)
(***************************************************************************)
EXTENDS Integers, Sequences, FiniteSets, TLC

(***************************************************************************)
(* Part 1.  Documents and _cleanup                                         *)
(*                                                                         *)
(* A Python value is a record with exactly one field, whose name is the    *)
(* value's type: null, bool, num, str, uuid, dt, list, dict.  Strings are  *)
(* sequences of characters, a dict is the sequence of its <<key, value>>   *)
(* items, a datetime is its distance from EPOCH in milliseconds.           *)
(***************************************************************************)

\* Largest number of elements of a generated list or dict.
MaxLen == 2

PyNone == [null |-> TRUE]

PyStr(s) == [str |-> s]

PyNum(n) == [num |-> n]

PyList(s) == [list |-> s]

PyDict(items) == [dict |-> items]

Kind(obj) == CHOOSE k \in DOMAIN obj : TRUE

IsNone(obj) == obj = PyNone

\* isinstance(obj, Iterable): str, list and dict are iterable; None, bool,
\* int, UUID and datetime are not.
IsIterable(obj) == Kind(obj) \in {"str", "list", "dict"}

\* sum(1 for e in obj)
Count(obj) ==
    CASE Kind(obj) = "str"  -> Len(obj.str)
      [] Kind(obj) = "list" -> Len(obj.list)
      [] Kind(obj) = "dict" -> Len(obj.dict)

\* key.startswith('_')
StartsWithUnderscore(key) == Len(key) > 0 /\ key[1] = "_"

CLS == <<"_", "c", "l", "s">>

TYPE == <<"t", "y", "p", "e">>

\* The key under which _cleanup stores an item: "_cls" becomes "type", and a
\* key that then still starts with '_' loses that one character.
CleanKey(key) ==
    LET k1 == IF key = CLS THEN TYPE ELSE key
    IN  IF StartsWithUnderscore(k1) THEN SubSeq(k1, 2, Len(k1)) ELSE k1

HasKey(items, key) == \E i \in 1..Len(items) : items[i][1] = key

\* plugin_dict[key] = val: an existing key keeps its place and takes the new
\* value, a new key goes to the end.
DictSet(items, key, val) ==
    IF HasKey(items, key)
    THEN [i \in 1..Len(items) |->
            IF items[i][1] = key THEN <<key, val>> ELSE items[i]]
    ELSE Append(items, <<key, val>>)

\* str(uuid): the 36-character hyphenated form, 8-4-4-4-12 hexadecimal
\* digits; the modelled UUIDs differ in their last digit.
HexDigit(n) == <<"0","1","2","3","4","5","6","7","8","9","a","b","c","d","e","f">>[(n % 16) + 1]

UuidStr(n) ==
    [i \in 1..36 |->
        IF i \in {9, 14, 19, 24} THEN "-"
        ELSE IF i = 36 THEN HexDigit(n)
        ELSE IF i = 35 THEN HexDigit(n \div 16)
        ELSE "0"]

\* int((obj - EPOCH).total_seconds()): int() truncates toward zero.
EpochSeconds(ms) == IF ms >= 0 THEN ms \div 1000 ELSE -((-ms) \div 1000)

RECURSIVE _cleanup(_)
RECURSIVE CleanupItems(_, _, _)

\* The loop of _cleanup over obj.items(), from item i on, with plugin_dict
\* built so far in acc.
CleanupItems(items, i, acc) ==
    IF i > Len(items) THEN acc
    ELSE LET val == _cleanup(items[i][2])
         IN  IF IsNone(val)
             THEN CleanupItems(items, i + 1, acc)
             ELSE CleanupItems(items, i + 1,
                               DictSet(acc, CleanKey(items[i][1]), val))

_cleanup(obj) ==
    IF IsIterable(obj) /\ Count(obj) = 0 THEN PyNone
    ELSE CASE Kind(obj) = "dict" -> PyDict(CleanupItems(obj.dict, 1, <<>>))
           [] Kind(obj) = "list" ->
                PyList([i \in 1..Len(obj.list) |-> _cleanup(obj.list[i])])
           [] Kind(obj) = "uuid" -> PyStr(UuidStr(obj.uuid))
           [] Kind(obj) = "dt"   -> PyNum(EpochSeconds(obj.dt))
           [] OTHER -> obj


(***************************************************************************)
(* Part 2.  The plugins collection and the endpoints                       *)
(*                                                                         *)
(* Field values are the Python values of Part 1.  A stored document is a   *)
(* record; present = FALSE stands for "no document under this id".         *)
(***************************************************************************)

\* Number of UUIDs uuid4 can hand out.
MaxIds == 2

\* Largest length of a plugin's update sequence.
MaxUpdates == 2

\* Number of requests that can be in flight at the same time.
NumProcs == 2

Ids == 1..MaxIds

Procs == 1..NumProcs

PLUGIN == PyStr(<<"P", "l", "u", "g", "i", "n">>)

SPIGOT == PyStr(<<"P", "l", "u", "g", "i", "n", ".", "S", "p", "i", "g", "o", "t", "P", "l", "u", "g", "i", "n">>)

\* The classes a query on Plugin.objects / SpigotPlugin.objects selects.
PluginClasses == {PLUGIN, SPIGOT}

SpigotClasses == {SPIGOT}

\* get_jwt_identity()
Callers == {PyStr(<<"s", "1">>), PyStr(<<"s", "2">>)}

\* The names of the generic and of the spigot plugins of the requests.
GenericNames == {PyStr(<<"X">>)}

SpigotPluginNames == {PyStr(<<"W">>)}

Descriptions == {PyStr(<<"Y">>)}

Urls == {PyStr(<<"Z">>)}

SpigotNames == {PyStr(<<"s", "p">>)}

\* The update bodies of requests: server_id missing, empty or given.
UpdateBodies ==
    [server_id : {PyNone, PyStr(<<>>), PyStr(<<"s", "2">>)},
     version : {PyNum(1)}]

NoUpdate == [server_id |-> PyNone, version |-> PyNum(0)]

NoDoc ==
    [present |-> FALSE, cls |-> PyNone, name |-> PyNone,
     description |-> PyNone, download_url |-> PyNone,
     spigot_name |-> PyNone, updates |-> <<>>]

Triple(d) == <<d.name, d.description, d.download_url>>

NoKey == <<PyNone, PyNone, PyNone>>

VARIABLES
    store,   \* the plugins collection: id -> document
    used,    \* the ids uuid4 has returned for plugins that went on to be saved
    pc,      \* per request slot: "idle", "post" (between the duplicates
             \* query and save) or "append" (between get and save)
    local,   \* per request slot: the handler's plugin, caller and body
    watch,   \* whether the responses are recorded in last
    last,    \* the response the latest step sent, with the request's limit,
             \* server_id and triple; NoResp when the step sent none
    deleted, \* the ids for which DELETE has answered 200
    doc,     \* normalizer: the input document
    out,     \* normalizer: _cleanup(doc)
    out2,    \* normalizer: _cleanup(out)
    phase    \* normalizer: number of _cleanup calls made

vars == <<store, used, pc, local, watch, last, deleted, doc, out, out2, phase>>

storeVars == <<store, used, pc, local, watch, last, deleted>>

cleanVars == <<doc, out, out2, phase>>

NoLocal ==
    [plugin_id |-> 0, plugin |-> NoDoc, caller |-> PyNone, body |-> NoUpdate]

NoResp ==
    [op |-> "none", id |-> 0, code |-> 0, limit |-> 0,
     arg |-> PyNone, sid |-> PyNone, key |-> NoKey]

Resp(op, id, code) == [NoResp EXCEPT !.op = op, !.id = id, !.code = code]

\* What last holds after a step that answered r.
Sent(r) == IF watch THEN r ELSE NoResp

\* objects(...) of a class: the documents whose _cls the class selects.
Matches(classes, i) == store[i].present /\ store[i].cls \in classes

\* update.server_id is None or len(update.server_id) == 0
NoServerId(u) == IsNone(u.server_id) \/ Count(u.server_id) = 0

\* The loop of PluginsAPI.post over plugin.updates.
FillServerIds(updates, caller) ==
    [i \in 1..Len(updates) |->
        IF NoServerId(updates[i])
        THEN [updates[i] EXCEPT !.server_id = caller]
        ELSE updates[i]]

\* Duplicates with the query made on the generic class alone.
DuplicatesGenericOnly(plugin) ==
    {i \in Ids : Matches({PLUGIN}, i) /\ Triple(store[i]) = Triple(plugin)}

\* Plugin.objects(name=..., description=..., download_url=...)
Duplicates(plugin) ==
    {i \in Ids : Matches(PluginClasses, i) /\ Triple(store[i]) = Triple(plugin)}


\* Largest number of update entries embedded in a request body: they leave
\* room for one APPEND.
MaxBodyUpdates == MaxUpdates - 1

BodyUpdateSeqs ==
    UNION {[1..n -> UpdateBodies] : n \in 0..MaxBodyUpdates}

\* The JSON bodies of CREATE; spigot_name = PyNone stands for a body without
\* that key.
PluginBodies ==
    [name : GenericNames, description : Descriptions, download_url : Urls,
     spigot_name : {PyNone}, updates : BodyUpdateSeqs]
    \cup
    [name : SpigotPluginNames, description : Descriptions, download_url : Urls,
     spigot_name : SpigotNames, updates : BodyUpdateSeqs]

\* The values of the type query parameter of CREATE requests.
PostTypeArgs == {PyNone, PyStr(<<"a", "l", "l">>)}

\* The values of the type query parameter; PyNone stands for "not given".
TypeArgs ==
    {PyNone, PyStr(<<"x", "s", "p", "i", "g", "o", "t">>),
     PyStr(<<"a", "l", "l">>)}

\* sub in s, for strings
Contains(sub, s) ==
    \E k \in 0..(Len(s) - Len(sub)) : SubSeq(s, k + 1, k + Len(sub)) = sub

\* 'type' in args and 'spigot' in args['type']
WantsSpigot(type) ==
    ~IsNone(type) /\ Contains(<<"s", "p", "i", "g", "o", "t">>, type.str)

\* PluginsAPI.post up to and including the duplicates query: the plugin is
\* built from the body, gets a fresh id and the caller's identity in the
\* updates that have no server_id.  The uuid of a rejected request is never
\* stored or returned, so only a request that goes on to save takes one.
PostCheck(p) ==
    /\ pc[p] = "idle"
    /\ \E caller \in Callers, type \in PostTypeArgs, body \in PluginBodies :
         LET plugin ==
               [present |-> TRUE,
                cls |-> IF WantsSpigot(type) \/ ~IsNone(body.spigot_name)
                        THEN SPIGOT ELSE PLUGIN,
                name |-> body.name,
                description |-> body.description,
                download_url |-> body.download_url,
                spigot_name |-> body.spigot_name,
                updates |-> FillServerIds(body.updates, caller)]
         IN  IF Duplicates(plugin) # {}
             THEN /\ last' = Sent([Resp("create", 0, 400) EXCEPT
                                     !.key = Triple(plugin)])
                  /\ UNCHANGED <<store, used, pc, local, deleted>>
             ELSE \E id \in Ids \ used :
                  /\ used' = used \cup {id}
                  /\ pc' = [pc EXCEPT ![p] = "post"]
                  /\ local' = [local EXCEPT ![p] =
                                 [NoLocal EXCEPT !.plugin_id = id,
                                                 !.plugin = plugin]]
                  /\ last' = NoResp
                  /\ UNCHANGED <<store, deleted>>
    /\ UNCHANGED <<watch, doc, out, out2, phase>>

\* plugin.save() of PluginsAPI.post and its answer.
PostSave(p) ==
    /\ pc[p] = "post"
    /\ store' = [store EXCEPT ![local[p].plugin_id] = local[p].plugin]
    /\ pc' = [pc EXCEPT ![p] = "idle"]
    /\ local' = [local EXCEPT ![p] = NoLocal]
    /\ last' = Sent([Resp("create", local[p].plugin_id, 200) EXCEPT
                       !.key = Triple(local[p].plugin)])
    /\ UNCHANGED <<used, deleted>>
    /\ UNCHANGED <<watch, doc, out, out2, phase>>

\* The update sequences of PUT bodies: entries that name their server.
PutUpdateSeqs ==
    {s \in BodyUpdateSeqs : \A k \in 1..Len(s) : ~NoServerId(s[k])}

\* The JSON bodies of PUT: the fields it names and their values; malformed
\* stands for a value whose conversion raises ValueError.
PutBodies ==
    {b \in [has_description : BOOLEAN, description : Descriptions,
            has_updates : BOOLEAN, updates : PutUpdateSeqs,
            malformed : BOOLEAN] :
        /\ b.has_description \/ b.has_updates
        /\ ~b.has_updates => b.updates = <<>>
        /\ b.malformed => b.has_description /\ ~b.has_updates}

\* Plugin.objects.filter(id=plugin_id).update(**body): the matched document
\* with the fields of the body set.
UpdateDoc(d, body) ==
    [d EXCEPT !.description = IF body.has_description
                              THEN body.description ELSE @,
              !.updates = IF body.has_updates THEN body.updates ELSE @]

\* PluginAPI.put
Put(p) ==
    /\ pc[p] = "idle"
    /\ \E id \in Ids, body \in PutBodies :
         LET updated_doc_count ==
               IF body.malformed THEN 0
               ELSE IF Matches(PluginClasses, id) THEN 1 ELSE 0
         IN  /\ store' = IF updated_doc_count > 0
                         THEN [store EXCEPT ![id] = UpdateDoc(@, body)]
                         ELSE store
             /\ last' = Sent(Resp("put", id,
                                 IF updated_doc_count > 0 THEN 200 ELSE 404))
    /\ UNCHANGED <<used, pc, local, deleted>>
    /\ UNCHANGED <<watch, doc, out, out2, phase>>

\* PluginAPI.delete
Delete(p) ==
    /\ pc[p] = "idle"
    /\ \E id \in Ids :
         LET deleted_doc_count == IF Matches(PluginClasses, id) THEN 1 ELSE 0
         IN  /\ store' = IF deleted_doc_count > 0
                         THEN [store EXCEPT ![id] = NoDoc]
                         ELSE store
             /\ deleted' = IF deleted_doc_count > 0
                           THEN deleted \cup {id} ELSE deleted
             /\ last' = Sent(Resp("delete", id,
                                 IF deleted_doc_count > 0 THEN 200 ELSE 404))
    /\ UNCHANGED <<used, pc, local>>
    /\ UNCHANGED <<watch, doc, out, out2, phase>>


\* Keys of the stored documents.
K_ID == <<"_", "i", "d">>

K_NAME == <<"n", "a", "m", "e">>

K_DESCRIPTION == <<"d", "e", "s", "c", "r", "i", "p", "t", "i", "o", "n">>

K_URL == <<"d", "o", "w", "n", "l", "o", "a", "d", "_", "u", "r", "l">>

K_SPIGOT == <<"s", "p", "i", "g", "o", "t", "_", "n", "a", "m", "e">>

K_UPDATES == <<"u", "p", "d", "a", "t", "e", "s">>

K_SERVER == <<"s", "e", "r", "v", "e", "r", "_", "i", "d">>

K_VERSION == <<"v", "e", "r", "s", "i", "o", "n">>

HasValue(item) == ~IsNone(item[2])

\* to_mongo() of an update entry: the fields that are set.
UpdateToMongo(u) ==
    PyDict(SelectSeq(<< <<K_SERVER, u.server_id>>, <<K_VERSION, u.version>> >>,
                     HasValue))

UpdatesToMongo(updates) ==
    PyList([k \in 1..Len(updates) |-> UpdateToMongo(updates[k])])

\* to_mongo() of the plugin stored under id i.
ToMongo(i, d) ==
    PyDict(SelectSeq(<< <<K_ID, [uuid |-> i]>>,
                        <<CLS, d.cls>>,
                        <<K_NAME, d.name>>,
                        <<K_DESCRIPTION, d.description>>,
                        <<K_URL, d.download_url>>,
                        <<K_SPIGOT, d.spigot_name>>,
                        <<K_UPDATES, UpdatesToMongo(d.updates)>> >>,
                     HasValue))

\* The body PluginAPI.get answers with.
PluginGetBody(i) == _cleanup(ToMongo(i, store[i]))

\* PluginAPI.get: first_or_404
PluginGet(p) ==
    /\ pc[p] = "idle"
    /\ \E id \in Ids :
         last' = Sent(Resp("get", id,
                          IF Matches(PluginClasses, id) THEN 200 ELSE 404))
    /\ UNCHANGED <<store, used, pc, local, deleted>>
    /\ UNCHANGED <<watch, doc, out, out2, phase>>

\* The body UpdatesAPI.get answers with.
UpdatesGetBody(i) == _cleanup(UpdatesToMongo(store[i].updates))

\* The status UpdatesAPI.get answers with for plugin i: get_or_404
UpdatesGetCode(i) == IF Matches(PluginClasses, i) THEN 200 ELSE 404

\* UpdatesAPI.get
UpdatesGet(p) ==
    /\ pc[p] = "idle"
    /\ \E id \in Ids : last' = Sent(Resp("updates", id, UpdatesGetCode(id)))
    /\ UNCHANGED <<store, used, pc, local, deleted>>
    /\ UNCHANGED <<watch, doc, out, out2, phase>>

\* The JSON bodies of APPEND: without a server_id, or with one that is not
\* the caller's.
AppendBodies == {u \in UpdateBodies : u.server_id # PyStr(<<>>)}

\* UpdatesAPI.post up to and including Plugin.objects.get: a plugin that is
\* not found raises DoesNotExist, which nothing catches.
AppendLoad(p) ==
    /\ pc[p] = "idle"
    /\ \E id \in Ids, caller \in Callers, body \in AppendBodies :
         IF Matches(PluginClasses, id)
         THEN /\ Len(store[id].updates) < MaxUpdates
              /\ pc' = [pc EXCEPT ![p] = "append"]
              /\ local' = [local EXCEPT ![p] =
                             [plugin_id |-> id, plugin |-> store[id],
                              caller |-> caller, body |-> body]]
              /\ last' = NoResp
         ELSE /\ last' = Sent(Resp("append", id, 500))
              /\ UNCHANGED <<pc, local>>
    /\ UNCHANGED <<store, used, deleted>>
    /\ UNCHANGED <<watch, doc, out, out2, phase>>

\* The ways the object mapper can write a changed document loaded earlier:
\* "delta" sets the changed field (updates) of the document under the id,
\* inserting a document of just that field when there is none; "whole"
\* writes the loaded document back.
SaveModes == {"delta", "whole"}

\* plugin.save() of a plugin loaded earlier whose updates field changed.
SaveLoaded(mode, current, plugin) ==
    IF mode = "whole" THEN plugin
    ELSE IF current.present THEN [current EXCEPT !.updates = plugin.updates]
    ELSE [NoDoc EXCEPT !.present = TRUE, !.updates = plugin.updates]

\* NewUpdate with the caller's identity only filling in a missing server_id.
NewUpdateKeepGiven(body, caller) ==
    IF NoServerId(body) THEN [body EXCEPT !.server_id = caller] ELSE body

\* The entry UpdatesAPI.post builds: PluginUpdate(**body) with server_id set
\* to the caller's identity.
NewUpdate(body, caller) == [body EXCEPT !.server_id = caller]

\* Appended with the new entry put in front.
Prepended(updates, u) == <<u>> \o updates

\* plugin.updates.append(plugin_update)
Appended(updates, u) == Append(updates, u)

\* The rest of UpdatesAPI.post: build the update, append, save, answer.
AppendSave(p) ==
    /\ pc[p] = "append"
    /\ \E mode \in SaveModes :
         LET id == local[p].plugin_id
             plugin == [local[p].plugin EXCEPT
                          !.updates = Appended(@, NewUpdate(local[p].body,
                                                            local[p].caller))]
         IN  /\ store' = [store EXCEPT ![id] = SaveLoaded(mode, @, plugin)]
             /\ last' = Sent([Resp("append", id, 200) EXCEPT
                                !.sid = local[p].body.server_id])
    /\ pc' = [pc EXCEPT ![p] = "idle"]
    /\ local' = [local EXCEPT ![p] = NoLocal]
    /\ UNCHANGED <<used, deleted>>
    /\ UNCHANGED <<watch, doc, out, out2, phase>>


DefaultLimit == 20

MaxLimit == 300

Digits == <<"0", "1", "2", "3", "4", "5", "6", "7", "8", "9">>

IsDigit(c) == \E k \in 1..10 : Digits[k] = c

DigitValue(c) == (CHOOSE k \in 1..10 : Digits[k] = c) - 1

RECURSIVE DigitsValue(_, _)

\* The number the first n characters of the digit string s denote.
DigitsValue(s, n) ==
    IF n = 0 THEN 0 ELSE 10 * DigitsValue(s, n - 1) + DigitValue(s[n])

\* int(s) for a string of the characters used here: an optional sign and
\* at least one digit; anything else raises ValueError (ok = FALSE).
ParseInt(s) ==
    LET signed == Len(s) > 0 /\ s[1] \in {"-", "+"}
        digits == IF signed THEN SubSeq(s, 2, Len(s)) ELSE s
        ok     == Len(digits) > 0 /\ \A k \in 1..Len(digits) : IsDigit(digits[k])
        value  == DigitsValue(digits, Len(digits))
    IN  [ok |-> ok,
         value |-> IF ~ok THEN 0
                   ELSE IF signed /\ s[1] = "-" THEN -value ELSE value]

\* The values of the limit query parameter; PyNone stands for "not given".
LimitArgs ==
    {PyNone, PyStr(<<"1">>), PyStr(<<"3", "0", "0">>), PyStr(<<"3", "0", "1">>),
     PyStr(<<"5", "0", "0">>), PyStr(<<"a", "b", "c">>)}

\* The values of the name query parameter; PyNone stands for "not given".
NameArgs == {PyNone, PyStr(<<"X">>)}

ListArgs == [limit : LimitArgs, type : TypeArgs, name : NameArgs]

\* The limit PluginsAPI.get resolves from its arguments.
ResolveLimit(args) ==
    IF IsNone(args.limit) THEN DefaultLimit
    ELSE IF ParseInt(args.limit.str).value > MaxLimit THEN MaxLimit
    ELSE ParseInt(args.limit.str).value

\* c.lower() for the letters used here.
LowerChar(c) ==
    CASE c = "T" -> "t" [] c = "R" -> "r" [] c = "U" -> "u" [] c = "E" -> "e"
      [] c = "F" -> "f" [] c = "A" -> "a" [] c = "L" -> "l" [] c = "S" -> "s"
      [] c = "X" -> "x" [] c = "W" -> "w" [] OTHER -> c

Lower(s) == [k \in 1..Len(s) |-> LowerChar(s[k])]

\* The value a query parameter filters by: 'true' and 'false' in any case
\* become booleans.
QueryValue(v) ==
    IF Lower(v.str) = <<"t", "r", "u", "e">> THEN [bool |-> TRUE]
    ELSE IF Lower(v.str) = <<"f", "a", "l", "s", "e">> THEN [bool |-> FALSE]
    ELSE v

\* objects(**plugin_query) of the chosen class.
Query(args) ==
    {i \in Ids :
        /\ Matches(IF WantsSpigot(args.type) THEN SpigotClasses
                   ELSE PluginClasses, i)
        /\ IsNone(args.name) \/ store[i].name = QueryValue(args.name)}

\* .limit(n) of the query: the first n documents; 0 is no limit and a
\* negative n limits to its absolute value.
Limited(ids, n) ==
    LET m == IF n < 0 THEN -n ELSE n
    IN  IF m = 0 THEN ids
        ELSE {i \in ids : Cardinality({j \in ids : j < i}) < m}

\* The body PluginsAPI.get answers with: only id and name are loaded.
PluginsGetBody(ids) ==
    LET order == CHOOSE f \in [1..Cardinality(ids) -> ids] :
                    \A a, b \in 1..Cardinality(ids) : a < b => f[a] < f[b]
    IN  _cleanup(PyList([k \in 1..Cardinality(ids) |->
            PyDict(<< <<K_ID, [uuid |-> order[k]]>>,
                      <<K_NAME, store[order[k]].name>> >>)]))

\* PluginsAPI.get: int() of a limit that is no integer raises ValueError,
\* which nothing catches.
PluginsGet(p) ==
    /\ pc[p] = "idle"
    /\ \E args \in ListArgs :
         IF ~IsNone(args.limit) /\ ~ParseInt(args.limit.str).ok
         THEN last' = Sent([Resp("list", 0, 500) EXCEPT !.arg = args.limit])
         ELSE LET limit == ResolveLimit(args)
                  plugins == Limited(Query(args), limit)
              IN  last' = Sent([Resp("list", 0,
                                     IF Cardinality(plugins) = 0 THEN 404 ELSE 200)
                                EXCEPT !.limit = limit, !.arg = args.limit])
    /\ UNCHANGED <<store, used, pc, local, deleted>>
    /\ UNCHANGED <<watch, doc, out, out2, phase>>

CleanIdle == doc = PyNone /\ out = PyNone /\ out2 = PyNone /\ phase = 0

\* The empty collection with no request in flight.
StoreIdle ==
    /\ store = [i \in Ids |-> NoDoc]
    /\ used = {}
    /\ pc = [p \in Procs |-> "idle"]
    /\ local = [p \in Procs |-> NoLocal]
    /\ last = NoResp
    /\ deleted = {}

\* The interleavings are explored without recording the responses: their
\* properties are stated on the collection and on the handlers' positions.
Init == StoreIdle /\ CleanIdle /\ watch = FALSE

SeqInit == StoreIdle /\ CleanIdle /\ watch = TRUE

\* One step of the request handled in slot p.
Step(p) ==
    \/ PluginsGet(p)
    \/ PostCheck(p)
    \/ PostSave(p)
    \/ Put(p)
    \/ Delete(p)
    \/ PluginGet(p)
    \/ UpdatesGet(p)
    \/ AppendLoad(p)
    \/ AppendSave(p)

Next == \E p \in Procs : Step(p)

\* Requests from any number of clients, interleaved at their storage calls.
Spec == Init /\ [][Next]_vars

\* A server that handles one request at a time has a single slot.
SeqNext == Step(1)

\* Requests handled one after another.
SeqSpec == SeqInit /\ [][SeqNext]_vars


(***************************************************************************)
(* Part 3.  The normalizer on its own                                      *)
(***************************************************************************)

Keys == {<<"a">>, <<"_", "a">>, <<"_", "_", "a">>, CLS}

Scalars ==
    {PyNone, [bool |-> TRUE], PyNum(1), PyStr(<<>>), PyStr(<<"s">>),
     [uuid |-> 1], [dt |-> 1500], [dt |-> -1500]}

\* The sequences over S of at most n elements.
SeqsUpTo(S, n) == UNION {[1..k -> S] : k \in 0..n}

DistinctKeys(items) ==
    \A a, b \in 1..Len(items) : a # b => items[a][1] # items[b][1]

ListsOf(S) == {PyList(e) : e \in SeqsUpTo(S, MaxLen)}

DictsOf(S) ==
    {PyDict(e) : e \in {x \in SeqsUpTo(Keys \X S, MaxLen) : DistinctKeys(x)}}

Level0 == Scalars \cup {PyList(<<>>), PyDict(<<>>)}

Level1 == ListsOf(Level0) \cup DictsOf(Level0)

\* The documents _cleanup is run on: scalars, lists and dicts of scalars and
\* of empty collections, and those once more inside a list or a dict.
Docs ==
    Level0 \cup Level1
    \cup {PyList(<<d>>) : d \in Level1}
    \cup {PyDict(<< <<k, d>> >>) : k \in Keys, d \in Level1}

RECURSIVE PyEq(_, _)

\* a == b in Python, for the values _cleanup returns: dicts are equal when
\* they map the same keys to equal values, in any order.
PyEq(a, b) ==
    IF Kind(a) # Kind(b) THEN FALSE
    ELSE CASE Kind(a) = "list" ->
                /\ Len(a.list) = Len(b.list)
                /\ \A k \in 1..Len(a.list) : PyEq(a.list[k], b.list[k])
           [] Kind(a) = "dict" ->
                /\ Len(a.dict) = Len(b.dict)
                /\ \A k \in 1..Len(a.dict) : \E j \in 1..Len(b.dict) :
                      /\ a.dict[k][1] = b.dict[j][1]
                      /\ PyEq(a.dict[k][2], b.dict[j][2])
           [] OTHER -> a = b

RECURSIVE ContainsEmpty(_)

\* An empty list or an empty dict occurs in obj, at any depth.
ContainsEmpty(obj) ==
    CASE Kind(obj) = "list" ->
            \/ Len(obj.list) = 0
            \/ \E k \in 1..Len(obj.list) : ContainsEmpty(obj.list[k])
      [] Kind(obj) = "dict" ->
            \/ Len(obj.dict) = 0
            \/ \E k \in 1..Len(obj.dict) : ContainsEmpty(obj.dict[k][2])
      [] OTHER -> FALSE

CleanupInit ==
    /\ StoreIdle
    /\ watch = FALSE
    /\ doc \in Docs
    /\ out = PyNone
    /\ out2 = PyNone
    /\ phase = 0

\* out = _cleanup(doc)
Normalize ==
    /\ phase = 0
    /\ out' = _cleanup(doc)
    /\ phase' = 1
    /\ UNCHANGED <<doc, out2>>
    /\ UNCHANGED storeVars

\* out2 = _cleanup(out)
Renormalize ==
    /\ phase = 1
    /\ out2' = _cleanup(out)
    /\ phase' = 2
    /\ UNCHANGED <<doc, out>>
    /\ UNCHANGED storeVars

CleanupNext == Normalize \/ Renormalize

\* _cleanup applied once and then again to each document of Docs.
CleanupSpec == CleanupInit /\ [][CleanupNext]_vars

(***************************************************************************)
(* Part 4.  Properties                                                     *)
(***************************************************************************)

\* C4: normalization is idempotent: _cleanup(_cleanup(D)) equals _cleanup(D)
\* for every document D.
C4_Idempotent == phase = 2 => PyEq(out2, out)

\* C5: the output of _cleanup contains no empty sequence and no empty
\* mapping at any nesting depth.
C5_NoEmptyInOutput == phase >= 1 => ~ContainsEmpty(out)


ByIdOps == {"get", "put", "delete", "updates", "append"}

\* C1: each of the five by-id operations answers 404 for an identifier that
\* matches no stored plugin, and leaves the store unchanged.
C1_NotFoundById ==
    [][\A i \in Ids :
         (last'.op \in ByIdOps /\ last'.id = i /\ ~store[i].present)
            => (last'.code = 404 /\ store' = store)]_vars

\* C2: with requests handled one after another, a CREATE whose triple is
\* that of a plugin in the store answers 400 and leaves the store unchanged.
C2_DuplicateRejected ==
    [][(last'.op = "create"
          /\ \E i \in Ids : store[i].present /\ Triple(store[i]) = last'.key)
        => (last'.code = 400 /\ store' = store)]_vars

\* A CREATE has been answered with 400 while a plugin with its triple is in
\* the store.
C2_Witness ==
    /\ last.op = "create"
    /\ last.code = 400
    /\ \E i \in Ids : store[i].present /\ Triple(store[i]) = last.key

\* C3: at the moment a CREATE persists its plugin, no other stored plugin
\* has the same (name, description, download_url), in every interleaving.
C3_UniqueAtCreate ==
    [][\A p \in Procs :
         (pc[p] = "post" /\ pc'[p] = "idle")
            => \A i \in Ids \ {local[p].plugin_id} :
                  ~(store[i].present
                      /\ store[i].name = local[p].plugin.name
                      /\ store[i].description = local[p].plugin.description
                      /\ store[i].download_url = local[p].plugin.download_url)]_vars

\* C6: the limit of LIST is 20 when omitted, the parsed integer up to 300,
\* 300 above that, and a limit that is no integer is answered with a 4xx.
C6_Limit ==
    last.op = "list" =>
        /\ IsNone(last.arg) => last.limit = 20 /\ last.code \in {200, 404}
        /\ last.arg = PyStr(<<"1">>) => last.limit = 1 /\ last.code \in {200, 404}
        /\ last.arg = PyStr(<<"3", "0", "0">>)
              => last.limit = 300 /\ last.code \in {200, 404}
        /\ last.arg = PyStr(<<"3", "0", "1">>)
              => last.limit = 300 /\ last.code \in {200, 404}
        /\ last.arg = PyStr(<<"5", "0", "0">>)
              => last.limit = 300 /\ last.code \in {200, 404}
        /\ last.arg = PyStr(<<"a", "b", "c">>) => last.code \in 400..499

\* C7: a successful APPEND by caller c leaves the plugin's update sequence
\* equal to its previous sequence followed by one entry whose server_id is
\* c, whatever server_id the body gave.
C7_AppendAddsOne ==
    [][\A p \in Procs :
         (pc[p] = "append" /\ pc'[p] = "idle" /\ last'.code = 200)
            => LET i == local[p].plugin_id
               IN  /\ store'[i].present
                   /\ Len(store'[i].updates) = Len(store[i].updates) + 1
                   /\ SubSeq(store'[i].updates, 1, Len(store[i].updates))
                        = store[i].updates
                   /\ store'[i].updates[Len(store'[i].updates)].server_id
                        = local[p].caller]_vars

\* An APPEND whose body named another server has added the second entry of
\* a plugin, and the entry carries a server_id different from the body's.
C7_Witness ==
    /\ last.op = "append"
    /\ last.code = 200
    /\ ~IsNone(last.sid)
    /\ Len(store[last.id].updates) = 2
    /\ store[last.id].updates[2].server_id # last.sid

C9_OnlyAppend ==
    [][\A i \in Ids :
         /\ (store[i].present /\ store'[i].present
                /\ store'[i].updates # store[i].updates)
              => /\ last'.op = "append"
                 /\ Len(store'[i].updates) = Len(store[i].updates) + 1
                 /\ SubSeq(store'[i].updates, 1, Len(store[i].updates))
                      = store[i].updates
         /\ (~store[i].present /\ store'[i].present)
              => store'[i].updates = <<>>]_vars

\* C9 as amended: with requests handled one after another, the update
\* sequence of a plugin that stays in the store changes only by an APPEND to
\* that plugin adding one entry at its end or by a PUT on that plugin, and
\* update entries otherwise come into existence only with the plugin that a
\* CREATE stores.
C9_AppendPutOrCreate ==
    [][\A i \in Ids :
         /\ (store[i].present /\ store'[i].present
                /\ store'[i].updates # store[i].updates)
              => \/ /\ last'.op = "append"
                    /\ last'.id = i
                    /\ Len(store'[i].updates) = Len(store[i].updates) + 1
                    /\ SubSeq(store'[i].updates, 1, Len(store[i].updates))
                         = store[i].updates
                 \/ /\ last'.op = "put"
                    /\ last'.id = i
         /\ (~store[i].present /\ store'[i].present)
              => last'.op = "create" /\ last'.id = i]_vars

\* An APPEND has added the second entry of a plugin's update sequence.
C9_Witness ==
    /\ last.op = "append"
    /\ last.code = 200
    /\ store[last.id].present
    /\ Len(store[last.id].updates) = 2
    /\ store[last.id].updates[1] # store[last.id].updates[2]

\* C10: every operation is one atomic storage call, so every APPEND that
\* answers success has added its entry to the sequence stored at that
\* moment: none of two successful APPENDs on a plugin is lost.
C10_NoLostAppend ==
    [][\A p \in Procs :
         (pc[p] = "append" /\ pc'[p] = "idle"
            /\ store[local[p].plugin_id].present)
           => Len(store'[local[p].plugin_id].updates)
                = Len(store[local[p].plugin_id].updates) + 1]_vars

====
